---- MODULE Spec2Model ----
(***************************************************************************)
(* Inference orchestration and simulation control core of the FlashFusion  *)
(* dashboard.  The repository holds several versions of the orchestrator:  *)
(*   "tiered"     src/services/aiService.ts:108-221  in-memory Map cache,   *)
(*                keyed by model tier and normalised message               *)
(*   "persistent" src/unnamed/part_000:111-187       localStorage cache,    *)
(*                keyed by the raw message, skipped for boosted calls      *)
(*   "uncached"   src/services/aiService.ts:378-425  no cache              *)
(* The version in use is fixed when the program is built, so it is chosen  *)
(* in the initial state and never changes.  The same holds of the two      *)
(* versions of the simulation store (CityProvider: CityContext.tsx and     *)
(* part_001) and of handleSend (QuantumScene.tsx:488 and :270).            *)
(*                                                                         *)
(* SpecChat: direct calls of the orchestrator, one suspended at a time.    *)
(* SpecRace: direct non-boosted calls, two of them suspended together.     *)
(* SpecCity: the page: store, controls, telemetry interval, assistant,     *)
(*           and the unmounting of the store.                              *)
(* SpecSend: handleSend alone, with a remote call that always settles      *)
(*           (weak fairness on the settling of the pending call).          *)
(*                                                                         *)
(* Time is counted in units of 30 minutes (Date.now() / 1 800 000).        *)
(* Latency-derived fractions are kept in hundredths (ttft100), cost in     *)
(* units of 1/40000 (costEstimate = length/4 * coefficient, coefficient in *)
(* units of 0.0001); load, tflops and vramUsed in tenths.                  *)
(***************************************************************************)
EXTENDS Integers, Sequences, FiniteSets, Bags, TLC

VARIABLES
  impl,          \* which orchestrator version is built in
  now,           \* Date.now()
  cache,         \* tiered: inferenceCache (Map, in insertion order)
                 \* persistent: the parsed content of localStorage[CACHE_KEY]
  storageValid,  \* persistent: localStorage[CACHE_KEY] parses as JSON
  storageNull,   \* persistent: localStorage[CACHE_KEY] is the JSON text null
  pending,       \* chat() calls suspended at `await generateContent`
  out,           \* what the most recent step of the orchestrator did (history)
  storeImpl,     \* which CityProvider version is built in
  uiImpl,        \* which handleSend version is built in
  districts,     \* state.districts: key -> DistrictStatus
  transitHub,    \* state.transitHub
  simulationActive, \* state.simulationActive
  crashed,       \* a state updater threw while rendering: the tree is unmounted
  mounted,       \* CityProvider is mounted
  interval,      \* the interval set by CityProvider's effect is active
  isTyping,      \* the assistant panel's isTyping
  messages,      \* the assistant panel's messages, after the greeting
  scrollTarget,  \* the section the page last scrolled to
  ops            \* number of events so far

chatVars == <<impl, now, cache, storageValid, storageNull, pending, out>>

\* the simulation store (CityProvider) and the assistant panel
cityVars == <<storeImpl, uiImpl, districts, transitHub, simulationActive,
              crashed, mounted, interval, isTyping, messages, scrollTarget,
              ops>>

vars == <<chatVars, cityVars>>

----------------------------------------------------------------------------
\* Bounds of the model

\* the clock stops here
MaxTime == 2
\* chat() calls suspended at the same time
MaxInFlight == 1
\* aiService.ts:93 has MAX_CACHE_SIZE = 100; the model keeps the code's
\* comparison (size >= MAX_CACHE_SIZE) with a small capacity
MAX_CACHE_SIZE == 2
\* part_000:39 has `keys.length > 50`; same comparison, small limit
PERSIST_LIMIT == 1
\* events (clicks, sends, firings of the interval, steps of the clock) in
\* one behaviour
MaxOps == 3
\* chat() calls suspended at the same time when calls race (SpecRace)
MaxRacing == 2

----------------------------------------------------------------------------
\* Program constants

\* aiService.ts:92  CACHE_TTL = 1000 * 60 * 30 ms = 1 time unit
CACHE_TTL == 1
\* part_000:15  CACHE_EXPIRY = 1000 * 60 * 60 ms = 2 time units
CACHE_EXPIRY == 2

Impls == {"tiered", "persistent", "uncached"}

FlashModel == "gemini-3-flash-preview"
ProModel == "gemini-3-pro-preview"

\* aiService.ts:99-102, in units of 0.0001
COST_COEFFICIENT == [m \in {FlashModel, ProModel} |-> IF m = FlashModel THEN 1 ELSE 15]

\* the errors chat() throws
ClusterSaturated == "Local GPU cluster saturated. Initiating cross-district failover."
NeuralLinkDown == "Unable to establish neural link with inference server. Check district NOC."
ReasoningInterrupted == "Architectural reasoning interrupted. Check district connectivity."
ClusterUnreachable == "Unable to reach inference cluster. Check district connectivity."
InferenceUnavailable == {NeuralLinkDown, ReasoningInterrupted, ClusterUnreachable}

TimeoutText == "Architectural packet timeout. Re-routing..."
RetryingText == "Synchronous packet timeout. Retrying..."
DroppedText == "Architectural packet dropped. Please retry initialization."

----------------------------------------------------------------------------
\* Strings.  A message is a sequence of characters.

Whitespace == {" "}
Digits == {"0", "1", "2", "3", "4", "5", "6", "7", "8", "9"}

\* String.prototype.toLowerCase on the characters the model uses
LowerChar(c) ==
  CASE c = "H" -> "h"
    [] c = "I" -> "i"
    [] OTHER -> c

toLowerCase(s) == [i \in 1..Len(s) |-> LowerChar(s[i])]

RECURSIVE trimStart(_)
trimStart(s) ==
  IF s # <<>> /\ Head(s) \in Whitespace THEN trimStart(Tail(s)) ELSE s

RECURSIVE trimEnd(_)
trimEnd(s) ==
  IF s # <<>> /\ s[Len(s)] \in Whitespace
  THEN trimEnd(SubSeq(s, 1, Len(s) - 1))
  ELSE s

\* String.prototype.trim
trim(s) == trimEnd(trimStart(s))

modelFor(isBoosted) == IF isBoosted THEN ProModel ELSE FlashModel

\* aiService.ts:112-114  `${model}:${message.toLowerCase().trim()}`
privateHashNoModel(message, model) == <<":">> \o trim(toLowerCase(message))
privateHash(message, model) == <<model, ":">> \o trim(toLowerCase(message))

\* the key a chat(message, isBoosted) call looks up and writes
cacheKey(message, isBoosted) ==
  IF impl = "tiered" THEN privateHash(message, modelFor(isBoosted)) ELSE message

DigitValue(c) ==
  CASE c = "0" -> 0 [] c = "1" -> 1 [] c = "2" -> 2 [] c = "3" -> 3 [] c = "4" -> 4
    [] c = "5" -> 5 [] c = "6" -> 6 [] c = "7" -> 7 [] c = "8" -> 8 [] c = "9" -> 9

RECURSIVE NumericValue(_)
NumericValue(k) ==
  IF k = <<>> THEN 0
  ELSE 10 * NumericValue(SubSeq(k, 1, Len(k) - 1)) + DigitValue(k[Len(k)])

\* ECMAScript array index: a canonical numeric string below 2^32 - 1.  Own
\* property keys that are array indices are enumerated first, in ascending
\* numeric order (OrdinaryOwnPropertyKeys), before the string keys.  Every
\* canonical numeric string of up to nine digits is one; the messages of the
\* model are shorter than that.
IsArrayIndex(k) ==
  /\ k # <<>>
  /\ Len(k) <= 9
  /\ \A i \in 1..Len(k) : k[i] \in Digits
  /\ (Len(k) = 1 \/ k[1] # "0")

----------------------------------------------------------------------------
\* The cache: a sequence of [key, entry] in enumeration order.

Keys(c) == [i \in 1..Len(c) |-> c[i].key]
HasKey(c, k) == \E i \in 1..Len(c) : c[i].key = k
IndexOf(c, k) == CHOOSE i \in 1..Len(c) : c[i].key = k
Lookup(c, k) == c[IndexOf(c, k)].entry
Without(c, k) == SelectSeq(c, LAMBDA p : p.key # k)

\* Map.prototype.set: an existing key keeps its place, a new key goes last
MapSet(c, k, e) ==
  IF HasKey(c, k)
  THEN [c EXCEPT ![IndexOf(c, k)] = [key |-> k, entry |-> e]]
  ELSE Append(c, [key |-> k, entry |-> e])

\* where a new own property k is enumerated in an ordinary object
ObjInsertAt(c, k) ==
  IF IsArrayIndex(k)
  THEN 1 + Cardinality({i \in 1..Len(c) :
                          IsArrayIndex(c[i].key)
                          /\ NumericValue(c[i].key) < NumericValue(k)})
  ELSE Len(c) + 1

\* cache[prompt] = entry on the object JSON.parse returned
ObjSet(c, k, e) ==
  IF HasKey(c, k)
  THEN [c EXCEPT ![IndexOf(c, k)] = [key |-> k, entry |-> e]]
  ELSE LET at == ObjInsertAt(c, k)
       IN SubSeq(c, 1, at - 1) \o <<[key |-> k, entry |-> e]>> \o SubSeq(c, at, Len(c))

----------------------------------------------------------------------------
\* What the remote model can answer.  response.functionCalls is undefined
\* when the answer holds no tool call; <<>> stands for undefined.

NoCalls == <<>>

FailDistrict(id) ==
  [name |-> "triggerSimulationEvent", args |-> [eventType |-> "FAIL_DISTRICT", targetId |-> id]]

\* the answers tried for direct chat() calls
ApiResponses ==
  { [text |-> "All districts nominal.", functionCalls |-> NoCalls],
    [text |-> "", functionCalls |-> <<FailDistrict("DATA")>>] }

\* the failures of the remote call: the HTTP status (0: none, the transport
\* failed) and the words of error.message
RemoteErrors ==
  { [status |-> 429, message |-> <<"got", "status:", "429", "RESOURCE_EXHAUSTED">>],
    [status |-> 503, message |-> <<"got", "status:", "503", "UNAVAILABLE">>],
    [status |-> 0, message |-> <<"fetch", "failed">>] }

\* String.prototype.includes, on the words of a message
includes(message, word) == \E i \in 1..Len(message) : message[i] = word

\* the messages tried for direct chat() calls
Messages == { <<"h", "i">>, <<"H", "I", " ">>, <<"7">> }

----------------------------------------------------------------------------
\* chat(): the cache layer

\* out.kind: "fault"  chat() threw while reading the cache
\*           "hit"    chat() returned from the cache
\*           "issued" chat() called generateContent and is suspended
\*           "ok"     generateContent resolved and chat() returned its result
\*           "error"  generateContent rejected and chat() threw
\*           "cleared" clearCache() ran
\* msg, boosted: the arguments of that chat(); at: when the step ran;
\* cached: metrics.cached of the result; calls: the result's functionCalls;
\* origin: isBoosted of the remote call that produced the served entry;
\* thrown, status: the error thrown and the HTTP status that caused it;
\* stored: after the step the cache holds an entry under the call's key;
\* fresh: that entry was within its lifetime when the call looked it up;
\* wrote: the step wrote the cache; full: the cache held its maximum before;
\* raced: the call's key was written while the call was suspended;
\* evicted: the keys the write's eviction statement deleted;
\* had: the cache held an entry under the call's key before the step;
\* first: the first key of the cache before the step;
\* echo: the step before was the "ok" of a chat() with the same tier and the
\* same message up to case and outer whitespace; again: with the very same
\* message; since: the time of that step; prevWrote: its `wrote`
\* result.costEstimate of a result that has no such property (the results
\* of part_000:172-181 and aiService.ts:410-419)
NoCost == -1

NoOut ==
  [kind |-> "none", msg |-> <<>>, boosted |-> FALSE, at |-> 0, cached |-> FALSE,
   calls |-> <<>>, origin |-> FALSE, thrown |-> "", status |-> 0, stored |-> FALSE,
   fresh |-> FALSE, wrote |-> FALSE, full |-> FALSE, evicted |-> <<>>,
   had |-> FALSE, first |-> <<>>,
   echo |-> FALSE, again |-> FALSE, since |-> 0, prevWrote |-> FALSE,
   raced |-> FALSE, text |-> "", cost |-> NoCost]

\* part_000:22-23: stored data that is the JSON text null parses, and
\* getCache returns null
NullRead == "TypeError: Cannot read properties of null"

\* part_000:122  cache[message] is evaluated for a non-boosted call, outside
\* any try block: on null it throws
Faults(message, isBoosted) == impl = "persistent" /\ storageNull /\ ~isBoosted

\* part_000:20-28 getCache: unreadable data reads as the empty cache
getCache == IF storageValid THEN cache ELSE <<>>

\* aiService.ts:133 / part_000:122: the entry is still within its lifetime
IsFreshInclusive(entry, ttl) == now - entry.timestamp <= ttl
IsFreshReversed(entry, ttl) == now - entry.timestamp > ttl
IsFresh(entry, ttl) == now - entry.timestamp < ttl

\* aiService.ts:132-133 and part_000:119-122: the call is served from the cache
IsHit(message, isBoosted) ==
  CASE impl = "tiered" ->
         /\ HasKey(cache, cacheKey(message, isBoosted))
         /\ IsFresh(Lookup(cache, cacheKey(message, isBoosted)), CACHE_TTL)
    [] impl = "persistent" ->
         /\ ~isBoosted
         /\ HasKey(getCache, message)
         /\ IsFresh(Lookup(getCache, message), CACHE_EXPIRY)
    [] OTHER -> FALSE

\* aiService.ts:135-142 and part_000:123-131: what a hit returns
HitResult(message, isBoosted) ==
  IF impl = "tiered"
  THEN LET e == Lookup(cache, cacheKey(message, isBoosted))
       IN [text |-> e.text, functionCalls |-> e.functionCalls,
           costEstimate |-> e.costEstimate, timestamp |-> e.timestamp,
           metrics |-> [e.metrics EXCEPT !.cached = TRUE, !.totalLatency = 0]]
  ELSE [text |-> Lookup(getCache, message).response,
        metrics |-> [ttft100 |-> 0, totalLatency |-> 0, cached |-> TRUE,
                     accelerated |-> FALSE]]

\* the functionCalls a hit returns (the persistent version returns none)
HitCalls(message, isBoosted) ==
  IF impl = "tiered" THEN HitResult(message, isBoosted).functionCalls ELSE NoCalls

\* the tier of the remote call that produced the entry a hit serves (history)
HitOrigin(message, isBoosted) ==
  IF impl = "tiered"
  THEN Lookup(cache, cacheKey(message, isBoosted)).origin
  ELSE Lookup(getCache, message).origin

----------------------------------------------------------------------------
\* chat(): the remote call and the cache update

\* response.text || "<fallback>"  (aiService.ts:172, :411, part_000:157)
responseText(r) ==
  IF r.text # "" THEN r.text
  ELSE CASE impl = "tiered" -> TimeoutText
         [] impl = "persistent" -> RetryingText
         [] OTHER -> DroppedText

\* aiService.ts:175, in units of 1/40000
costEstimateFlat(text, isBoosted) == Len(text)
costEstimate(text, isBoosted) == Len(text) * COST_COEFFICIENT[modelFor(isBoosted)]

\* the estimated time to first token, in hundredths of a time unit
\* (aiService.ts:182, :414, part_000:176)
ttft100(totalLatency, isBoosted) ==
  CASE impl = "tiered" -> IF isBoosted THEN totalLatency * 40 ELSE totalLatency * 20
    [] impl = "persistent" -> totalLatency * 35
    [] OTHER -> totalLatency * 30

\* what a call that went to the remote model returns (aiService.ts:177-187,
\* :410-419, part_000:172-181); c is the suspended call, r the answer
MissResult(c, r) ==
  LET totalLatency == now - c.startTime
      metrics == [ttft100 |-> ttft100(totalLatency, c.boosted),
                  totalLatency |-> totalLatency,
                  cached |-> FALSE,
                  accelerated |-> c.boosted]
  IN IF impl = "tiered"
     THEN [text |-> responseText(r), functionCalls |-> r.functionCalls,
           costEstimate |-> costEstimate(responseText(r), c.boosted),
           metrics |-> metrics]
     ELSE [text |-> responseText(r), functionCalls |-> r.functionCalls,
           metrics |-> metrics]

\* aiService.ts:189-193  Cache Eviction Policy: the first key of the Map
\* goes when the Map is full (a key is never the empty string)
EvictOldest(c) ==
  IF Len(c) >= MAX_CACHE_SIZE /\ Keys(c)[1] # <<>> THEN Tail(c) ELSE c

\* aiService.ts:189-199: evict, then inferenceCache.set(cacheKey, entry)
TieredWrite(c, r) ==
  LET res == MissResult(c, r)
      entry == [text |-> res.text, functionCalls |-> res.functionCalls,
                costEstimate |-> res.costEstimate, metrics |-> res.metrics,
                timestamp |-> now, origin |-> c.boosted]
  IN MapSet(EvictOldest(cache), cacheKey(c.msg, c.boosted), entry)

\* part_000:33-40 setCache up to the write: the entry is stored first, then
\* the first enumerated key goes when there are more keys than the limit
PersistentTrim(c) == IF Len(c) > PERSIST_LIMIT THEN Tail(c) ELSE c

PersistentWrite(c, r) ==
  LET entry == [prompt |-> c.msg, response |-> responseText(r), timestamp |-> now,
                metrics |-> [latency |-> now - c.startTime, tokens |-> 0],
                origin |-> c.boosted]
  IN PersistentTrim(ObjSet(getCache, c.msg, entry))

\* part_000:160  only answers of non-boosted calls without tool calls are stored
ShouldPersist(c, r) == ~c.boosted /\ r.functionCalls = NoCalls

\* the cache after the call c got the answer r; quotaOk: localStorage.setItem
\* did not throw (part_000:40-43)
CacheAfter(c, r, quotaOk) ==
  CASE impl = "tiered" -> TieredWrite(c, r)
    [] impl = "persistent" /\ ShouldPersist(c, r) /\ quotaOk -> PersistentWrite(c, r)
    [] OTHER -> cache

StorageValidAfter(c, r, quotaOk) ==
  IF impl = "persistent" /\ ShouldPersist(c, r) /\ quotaOk THEN TRUE ELSE storageValid

\* aiService.ts:202-211, :420-423, part_000:182-185: the error chat() throws
\* when the remote call failed with error e
Thrown(e) ==
  CASE impl = "tiered" ->
         IF includes(e.message, "429") THEN ClusterSaturated ELSE NeuralLinkDown
    [] impl = "persistent" -> ReasoningInterrupted
    [] OTHER -> ClusterUnreachable

----------------------------------------------------------------------------
\* Direct calls of InferenceOrchestrator.chat

Call(m, b, owner) == [msg |-> m, boosted |-> b, startTime |-> now, owner |-> owner]

InFlight == BagCardinality(pending)

\* the cache c (readable: valid) holds an entry under the key of chat(m, b)
Stored(c, valid, m, b) == impl # "uncached" /\ valid /\ HasKey(c, cacheKey(m, b))

\* the lifetime of an entry
Ttl == IF impl = "tiered" THEN CACHE_TTL ELSE CACHE_EXPIRY

\* the entry under the key of chat(m, b) exists and is younger than Ttl
Fresh(m, b) ==
  /\ Stored(cache, storageValid, m, b)
  /\ now - Lookup(cache, cacheKey(m, b)).timestamp < Ttl

\* the step before this chat(m, b) was the successful return of a chat with
\* the same tier and the same message up to case and outer whitespace
Echo(m, b) ==
  /\ out.kind = "ok"
  /\ out.boosted = b
  /\ trim(toLowerCase(out.msg)) = trim(toLowerCase(m))

\* ... of a chat with the very same arguments
Again(m, b) == out.kind = "ok" /\ out.msg = m /\ out.boosted = b

\* the cache holds as many entries as the version allows
Full == Len(getCache) >= (IF impl = "tiered" THEN MAX_CACHE_SIZE ELSE PERSIST_LIMIT)

\* the call c, answered with r, writes the cache
Wrote(c, r, quotaOk) ==
  \/ impl = "tiered"
  \/ impl = "persistent" /\ ShouldPersist(c, r) /\ quotaOk

\* the keys of `before` that are not in `after`
Dropped(before, after) ==
  SelectSeq(Keys(before), LAMBDA k : ~HasKey(after, k))

\* the keys the eviction statement of the write deletes
Evicted(c, r, quotaOk) ==
  CASE impl = "tiered" -> Dropped(cache, EvictOldest(cache))
    [] impl = "persistent" /\ ShouldPersist(c, r) /\ quotaOk ->
         LET set == ObjSet(getCache, c.msg, [prompt |-> c.msg])
         IN Dropped(set, PersistentTrim(set))
    [] OTHER -> <<>>

\* the entry under the key of the suspended call c was written while c was
\* suspended (c looked the cache up and missed, so an entry as young as c
\* was not there when c looked)
Raced(c) ==
  /\ (impl = "tiered" \/ ~c.boosted)
  /\ Stored(cache, storageValid, c.msg, c.boosted)
  /\ Lookup(cache, cacheKey(c.msg, c.boosted)).timestamp >= c.startTime

\* chat(m, b), called by owner, up to its return (a hit) or its await (a
\* miss); at most `limit` calls are suspended at a time
ChatUpToPurging(m, b, owner, limit) ==
  /\ ~Faults(m, b)
  /\ IF IsHit(m, b)
     THEN /\ out' = [NoOut EXCEPT !.kind = "hit", !.msg = m, !.boosted = b, !.at = now,
                                  !.cached = HitResult(m, b).metrics.cached,
                                  !.calls = HitCalls(m, b),
                                  !.origin = HitOrigin(m, b),
                                  !.stored = TRUE, !.fresh = Fresh(m, b)]
          /\ UNCHANGED <<pending, cache>>
     ELSE /\ InFlight < limit
          /\ out' = [NoOut EXCEPT !.kind = "issued", !.msg = m, !.boosted = b,
                                  !.at = now,
                                  !.stored = Stored(cache, storageValid, m, b),
                                  !.fresh = Fresh(m, b)]
          /\ pending' = pending (+) SetToBag({Call(m, b, owner)})
          /\ cache' = IF Stored(cache, storageValid, m, b)
                      THEN Without(cache, cacheKey(m, b))
                      ELSE cache
  /\ UNCHANGED <<impl, now, storageValid, storageNull>>
ChatUpTo(m, b, owner, limit) ==
  /\ IF Faults(m, b)
     THEN /\ out' = [NoOut EXCEPT !.kind = "fault", !.msg = m, !.boosted = b,
                                  !.at = now, !.thrown = NullRead]
          /\ UNCHANGED pending
     ELSE IF IsHit(m, b)
     THEN /\ out' = [NoOut EXCEPT !.kind = "hit", !.msg = m, !.boosted = b, !.at = now,
                                  !.cached = HitResult(m, b).metrics.cached,
                                  !.calls = HitCalls(m, b),
                                  !.origin = HitOrigin(m, b),
                                  !.stored = TRUE, !.fresh = Fresh(m, b),
                                  !.echo = Echo(m, b), !.again = Again(m, b),
                                  !.since = out.at, !.prevWrote = out.wrote]
          /\ UNCHANGED pending
     ELSE /\ InFlight < limit
          /\ out' = [NoOut EXCEPT !.kind = "issued", !.msg = m, !.boosted = b,
                                  !.at = now,
                                  !.stored = Stored(cache, storageValid, m, b),
                                  !.fresh = Fresh(m, b),
                                  !.echo = Echo(m, b), !.again = Again(m, b),
                                  !.since = out.at, !.prevWrote = out.wrote]
          /\ pending' = pending (+) SetToBag({Call(m, b, owner)})
  /\ UNCHANGED <<impl, now, cache, storageValid, storageNull>>

ChatBy(m, b, owner) == ChatUpTo(m, b, owner, MaxInFlight)

\* generateContent resolved with r: the rest of chat()
Resolve(c, r, quotaOk) ==
  /\ pending' = pending (-) SetToBag({c})
  /\ cache' = CacheAfter(c, r, quotaOk)
  /\ storageValid' = StorageValidAfter(c, r, quotaOk)
  /\ out' = [NoOut EXCEPT !.kind = "ok", !.msg = c.msg, !.boosted = c.boosted,
                          !.at = now, !.cached = MissResult(c, r).metrics.cached,
                          !.calls = MissResult(c, r).functionCalls,
                          !.stored = Stored(cache', storageValid', c.msg, c.boosted),
                          !.wrote = Wrote(c, r, quotaOk), !.full = Full,
                          !.had = Stored(cache, storageValid, c.msg, c.boosted),
                          !.first = IF getCache = <<>> THEN <<>> ELSE Keys(getCache)[1],
                          !.evicted = Evicted(c, r, quotaOk),
                          !.raced = Raced(c),
                          !.text = MissResult(c, r).text,
                          !.cost = IF impl = "tiered"
                                   THEN MissResult(c, r).costEstimate
                                   ELSE NoCost]
  /\ UNCHANGED <<impl, now, storageNull>>

\* generateContent rejected with e: the catch block of chat()
RejectEvicting(c, e) ==
  /\ pending' = pending (-) SetToBag({c})
  /\ out' = [NoOut EXCEPT !.kind = "error", !.msg = c.msg, !.boosted = c.boosted,
                          !.at = now, !.thrown = Thrown(e), !.status = e.status,
                          !.stored = Stored(cache, storageValid, c.msg, c.boosted),
                          !.raced = Raced(c)]
  /\ cache' = IF cache = <<>> THEN cache ELSE Tail(cache)
  /\ UNCHANGED <<impl, now, storageValid, storageNull>>
Reject(c, e) ==
  /\ pending' = pending (-) SetToBag({c})
  /\ out' = [NoOut EXCEPT !.kind = "error", !.msg = c.msg, !.boosted = c.boosted,
                          !.at = now, !.thrown = Thrown(e), !.status = e.status,
                          !.stored = Stored(cache, storageValid, c.msg, c.boosted),
                          !.raced = Raced(c)]
  /\ UNCHANGED <<impl, now, cache, storageValid, storageNull>>

\* a direct call chat(m, b) and its two continuations
Chat(m, b) == ChatBy(m, b, "api") /\ UNCHANGED cityVars

ChatResolve(c, r, quotaOk) ==
  c.owner = "api" /\ Resolve(c, r, quotaOk) /\ UNCHANGED cityVars

ChatReject(c, e) == c.owner = "api" /\ Reject(c, e) /\ UNCHANGED cityVars

\* aiService.ts:217-220 clearCache (the tiered version only)
ClearCache ==
  /\ impl = "tiered"
  /\ cache # <<>>
  /\ cache' = <<>>
  /\ out' = [NoOut EXCEPT !.kind = "cleared", !.at = now]
  /\ UNCHANGED <<impl, now, storageValid, storageNull, pending>>
  /\ UNCHANGED cityVars

\* the clock moves on
AdvanceTime ==
  /\ now < MaxTime
  /\ now' = now + 1
  /\ ops < MaxOps
  /\ ops' = ops + 1
  /\ UNCHANGED <<impl, cache, storageValid, storageNull, pending, out>>
  /\ UNCHANGED <<storeImpl, uiImpl, districts, transitHub, simulationActive,
                 crashed, mounted, interval, isTyping, messages,
                 scrollTarget>>

----------------------------------------------------------------------------
\* The simulation store: CityProvider.  Two versions are in the repository,
\*   "context"  src/context/CityContext.tsx
\*   "noc"      src/unnamed/part_001
\* load, tflops and vramUsed are in tenths; Math.random() is a draw from
\* RandomTenths (tenths as well).

StoreImpls == {"context", "noc"}

\* CityContext.tsx:10  INITIAL_DISTRICTS
HubIds == {"DEV", "DATA", "AI", "OPS", "GROWTH", "COMMERCE", "COLLAB"}

\* types.ts:184-191  the declared values of CityState.transitHub
TransitHubs == {"n8n", "Zapier", "Manual"}

\* the value of an absent property or argument; as a property key it is the
\* string "undefined"
Undefined == "undefined"

\* the keys every object inherits from Object.prototype (one of them)
PrototypeKeys == {"toString"}

RandomTenths == {0, 9}

\* gpuAcceleration of a district that has none
NoGpu == [present |-> FALSE, isBoosted |-> FALSE, tflops |-> 0, vramUsed |-> 0]

Gpu(isBoosted, tflops, vramUsed) ==
  [present |-> TRUE, isBoosted |-> isBoosted, tflops |-> tflops, vramUsed |-> vramUsed]

\* CityContext.tsx:16-27, :98-109  the reduce over INITIAL_DISTRICTS
InitialDistricts(load, vramUsed) ==
  [id \in HubIds |->
     [id |-> id, isActive |-> TRUE, load |-> load, health |-> 100,
      gpu |-> IF id = "AI" THEN Gpu(FALSE, 1200, vramUsed) ELSE NoGpu]]

\* CityContext.tsx:15-30, part_001:19-34  the initial state; every district
\* draws its load, the model gives them the same draw r
InitialState(r) ==
  [districts |-> IF storeImpl = "context"
                 THEN InitialDistricts(150 + r * 20, 420)
                 ELSE InitialDistricts(100 + r * 15, 380),
   transitHub |-> "n8n",
   simulationActive |-> FALSE,
   threw |-> FALSE,
   scroll |-> ""]

\* the state the updaters of one render work on: the store, whether an
\* updater threw, and the section scrolled to
State ==
  [districts |-> districts, transitHub |-> transitHub,
   simulationActive |-> simulationActive, threw |-> FALSE, scroll |-> scrollTarget]

\* prev.districts[id] is an own property of the map
HasOwn(d, id) == id \in DOMAIN d

\* prev.districts[id] is undefined, so reading .isActive of it throws
IsUndefined(d, id) == ~HasOwn(d, id) /\ id \notin PrototypeKeys

\* { ...prev.districts[id] }: the own properties of the entry; an inherited
\* function has none (isActive undefined, which is falsy)
Spread(d, id) ==
  IF HasOwn(d, id) THEN d[id]
  ELSE [id |-> Undefined, isActive |-> FALSE, load |-> 0, health |-> 0, gpu |-> NoGpu]

\* { ...prev.districts, [id]: entry }
WithEntry(d, id, entry) ==
  [k \in DOMAIN d \cup {id} |-> IF k = id THEN entry ELSE d[k]]

\* CityContext.tsx:68, part_001:86  load: newStatus ? 20 : 0  (15 in part_001)
ToggledLoadKept(newStatus) == IF storeImpl = "context" THEN 200 ELSE 150
ToggledLoad(newStatus) ==
  IF newStatus THEN (IF storeImpl = "context" THEN 200 ELSE 150) ELSE 0

\* CityContext.tsx:67, part_001:85  health: newStatus ? 100 : 0
ToggledHealthFull(newStatus) == 100
ToggledHealth(newStatus) == IF newStatus THEN 100 ELSE 0

\* CityContext.tsx:57-74, part_001:74-92  the updater of toggleDistrict(id)
toggleDistrictOff(s, id) ==
  IF s.threw \/ IsUndefined(s.districts, id)
  THEN [s EXCEPT !.threw = TRUE]
  ELSE [s EXCEPT !.districts =
                   WithEntry(s.districts, id,
                             [Spread(s.districts, id) EXCEPT !.isActive = FALSE,
                                                             !.health = 0,
                                                             !.load = 0]),
                 !.simulationActive = TRUE]
toggleDistrict(s, id) ==
  IF s.threw \/ IsUndefined(s.districts, id)
  THEN [s EXCEPT !.threw = TRUE]
  ELSE LET current == Spread(s.districts, id)
           newStatus == ~current.isActive
       IN [s EXCEPT !.districts =
                      WithEntry(s.districts, id,
                                [current EXCEPT !.isActive = newStatus,
                                                !.health = ToggledHealth(newStatus),
                                                !.load = ToggledLoad(newStatus)]),
                    !.simulationActive = TRUE]

\* CityContext.tsx:76-90, part_001:97-116  the updater of toggleGPUBooost()
toggleGPUBooostActive(s) ==
  IF s.threw \/ ~s.districts["AI"].gpu.present
  THEN s
  ELSE [s EXCEPT !.districts["AI"].gpu.isBoosted = ~s.districts["AI"].gpu.isBoosted,
                 !.simulationActive = TRUE]
toggleGPUBooost(s) ==
  IF s.threw \/ ~s.districts["AI"].gpu.present
  THEN s
  ELSE [s EXCEPT !.districts["AI"].gpu.isBoosted = ~s.districts["AI"].gpu.isBoosted]

\* CityContext.tsx:92-94, part_001:118-120  the updater of setTransitHub(hub)
setTransitHubQuiet(s, hub) ==
  IF s.threw THEN s
  ELSE [s EXCEPT !.transitHub = hub]
setTransitHub(s, hub) ==
  IF s.threw THEN s
  ELSE [s EXCEPT !.transitHub = hub, !.simulationActive = TRUE]

\* CityContext.tsx:96-113, part_001:122-139  resetSimulation()
resetSimulationKeepsHub(s) ==
  IF s.threw THEN s
  ELSE [s EXCEPT !.districts = InitialDistricts(200, 420),
                 !.simulationActive = FALSE]
resetSimulation(s) ==
  IF s.threw THEN s
  ELSE [s EXCEPT !.districts = InitialDistricts(200, 420),
                 !.transitHub = "n8n",
                 !.simulationActive = FALSE]

\* CityContext.tsx:43-48, part_001:56-61  the telemetry a tick writes
TickTflopsLow(isBoosted, r) == 1200 + r * 10
TickTflops(isBoosted, r) ==
  IF storeImpl = "context"
  THEN (IF isBoosted THEN 8500 + r * 50 ELSE 1200 + r * 10)
  ELSE (IF isBoosted THEN 8200 + r * 80 ELSE 1200 + r * 10)

TickVram(isBoosted, r) ==
  IF storeImpl = "context"
  THEN (IF isBoosted THEN 780 + r * 2 ELSE 420 + r * 3)
  ELSE (IF isBoosted THEN 760 + r * 4 ELSE 380 + r * 5)

\* CityContext.tsx:35-52, part_001:42-66  the updater of the interval
tick(s, r1, r2) ==
  LET aiDist == s.districts["AI"]
  IN IF storeImpl = "noc" /\ ~aiDist.isActive THEN s
     ELSE IF ~aiDist.gpu.present THEN s
     ELSE [s EXCEPT !.districts["AI"].gpu.tflops = TickTflops(aiDist.gpu.isBoosted, r1),
                    !.districts["AI"].gpu.vramUsed = TickVram(aiDist.gpu.isBoosted, r2)]

\* CityContext.tsx:54, part_001:68  the cleanup of the effect,
\* () => clearInterval(interval): the interval is no longer active
keepInterval(handle) == handle
clearInterval(handle) == FALSE


\* React commits the state s the updaters of one render produced; when one
\* of them threw, nothing is committed and the root is unmounted (the
\* ErrorBoundary of App.tsx:61 is below CityProvider).  A scroll has
\* happened either way.
Commit(s) ==
  /\ crashed' = s.threw
  /\ mounted' = (mounted /\ ~s.threw)
  /\ interval' = IF s.threw THEN clearInterval(interval) ELSE interval
  /\ scrollTarget' = s.scroll
  /\ IF s.threw
     THEN UNCHANGED <<districts, transitHub, simulationActive>>
     ELSE /\ districts' = s.districts
          /\ transitHub' = s.transitHub
          /\ simulationActive' = s.simulationActive

\* the user's controls (part_006: SimulationSection)
ToggleDistrict(id) ==
  /\ ~crashed /\ mounted /\ ops < MaxOps
  /\ ops' = ops + 1
  /\ Commit(toggleDistrict(State, id))
  /\ UNCHANGED <<storeImpl, uiImpl, isTyping, messages>>
  /\ UNCHANGED chatVars

SetTransitHub(hub) ==
  /\ ~crashed /\ mounted /\ ops < MaxOps
  /\ ops' = ops + 1
  /\ Commit(setTransitHub(State, hub))
  /\ UNCHANGED <<storeImpl, uiImpl, isTyping, messages>>
  /\ UNCHANGED chatVars

ToggleGPUBooost ==
  /\ ~crashed /\ mounted /\ ops < MaxOps
  /\ ops' = ops + 1
  /\ Commit(toggleGPUBooost(State))
  /\ UNCHANGED <<storeImpl, uiImpl, isTyping, messages>>
  /\ UNCHANGED chatVars

ResetSimulation ==
  /\ ~crashed /\ mounted /\ ops < MaxOps
  /\ ops' = ops + 1
  /\ Commit(resetSimulation(State))
  /\ UNCHANGED <<storeImpl, uiImpl, isTyping, messages>>
  /\ UNCHANGED chatVars

\* the interval fires: the callback of setInterval runs (CityContext.tsx:34-53,
\* part_001:41-67)
Tick(r1, r2) ==
  /\ interval /\ ops < MaxOps
  /\ ops' = ops + 1
  /\ Commit(tick(State, r1, r2))
  /\ UNCHANGED <<storeImpl, uiImpl, isTyping, messages>>
  /\ UNCHANGED chatVars

\* CityProvider is unmounted (the root goes away): React runs the cleanup of
\* its effect
Unmount ==
  /\ mounted /\ ops < MaxOps
  /\ ops' = ops + 1
  /\ mounted' = FALSE
  /\ interval' = clearInterval(interval)
  /\ UNCHANGED <<storeImpl, uiImpl, districts, transitHub, simulationActive,
                 crashed, isTyping, messages, scrollTarget>>
  /\ UNCHANGED chatVars

----------------------------------------------------------------------------
\* The assistant panel: handleSend and the dispatch of the model's tool
\* calls.  Two versions are in the repository,
\*   "switch"   src/components/QuantumScene.tsx:488-534
\*   "guarded"  src/components/QuantumScene.tsx:270-312

UiImpls == {"switch", "guarded"}

\* aiService.ts:47  the sections of the page
SectionIds ==
  {"hero", "introduction", "infrastructure", "integration", "simulation",
   "investment", "roadmap", "governance"}

Event(eventType, targetId) ==
  [name |-> "triggerSimulationEvent",
   args |-> [eventType |-> eventType, targetId |-> targetId]]

Navigate(sectionId) ==
  [name |-> "navigateToSection", args |-> [sectionId |-> sectionId]]

GpuBoost == [name |-> "toggleGpuBoost", args |-> <<>>]

\* a tool call no version of handleSend knows
UnknownCall == [name |-> "openDashboard", args |-> <<>>]

\* the answers tried for the assistant's calls: targetId is a free string
\* of the tool's schema (aiService.ts:64-67) and is not required
ModelResponses ==
  { [text |-> "All districts nominal.", functionCalls |-> NoCalls],
    [text |-> "", functionCalls |-> <<Event("FAIL_DISTRICT", "DATA")>>],
    [text |-> "", functionCalls |-> <<Event("FAIL_DISTRICT", "FOO")>>],
    [text |-> "", functionCalls |-> <<Event("FAIL_DISTRICT", Undefined)>>],
    [text |-> "", functionCalls |-> <<Event("FAIL_DISTRICT", "toString")>>],
    [text |-> "", functionCalls |-> <<Event("SWITCH_TRANSIT", "Zapier")>>],
    [text |-> "", functionCalls |-> <<Event("SWITCH_TRANSIT", "MCP")>>],
    [text |-> "", functionCalls |-> <<Event("SWITCH_TRANSIT", Undefined)>>],
    [text |-> "", functionCalls |-> <<Event("RESET", Undefined)>>],
    [text |-> "Boosting.", functionCalls |-> <<GpuBoost>>],
    [text |-> "Done.", functionCalls |->
       <<UnknownCall, Event("SWITCH_TRANSIT", "Zapier")>>],
    [text |-> "Restarted.", functionCalls |->
       <<Event("RESET", Undefined), Event("FAIL_DISTRICT", "DATA")>>],
    [text |-> "", functionCalls |->
       <<Navigate("simulation"), Event("FAIL_DISTRICT", "AI"),
         Event("SWITCH_TRANSIT", "Manual")>>] }

\* the texts tried for handleSend
SendTexts == { <<"h", "i">>, <<"H", "I", " ">>, <<" ">> }

\* the fallback message of the catch block (QuantumScene.tsx:529, :308)
InterruptedText ==
  IF uiImpl = "switch" THEN "Platform reasoning interrupted."
  ELSE "District connection interrupted."

\* JavaScript truthiness of a targetId
Truthy(v) == v \notin {Undefined, ""}

\* useNavigation.ts:41-51  scrollToSection(id)(): scrolls when the element
\* exists
scrollToSection(s, id) == IF id \in SectionIds THEN [s EXCEPT !.scroll = id] ELSE s

\* an operation the dispatcher invokes, with its argument
Op(name, arg) == [op |-> name, arg |-> arg]

\* QuantumScene.tsx:508-511 and :289-296  case 'triggerSimulationEvent': the
\* store operations it invokes
triggerSimulationEvent(eventType, targetId) ==
  IF uiImpl = "switch"
  THEN CASE eventType = "FAIL_DISTRICT" -> <<Op("toggleDistrict", targetId)>>
         [] eventType = "SWITCH_TRANSIT" -> <<Op("setTransitHub", targetId)>>
         [] eventType = "RESET" -> <<Op("resetSimulation", Undefined)>>
         [] OTHER -> <<>>
  ELSE CASE eventType = "FAIL_DISTRICT" /\ Truthy(targetId) ->
              <<Op("toggleDistrict", targetId)>>
         [] eventType = "SWITCH_TRANSIT" /\ Truthy(targetId) ->
              <<Op("setTransitHub", targetId)>>
         [] eventType = "RESET" -> <<Op("resetSimulation", Undefined)>>
         [] OTHER -> <<>>

\* QuantumScene.tsx:503-516 and :285-297  one iteration of the loop: the
\* operations it invokes for the call fc
Performed(fc) ==
  CASE fc.name = "navigateToSection" -> <<Op("scrollToSection", fc.args.sectionId)>>
    [] fc.name = "triggerSimulationEvent" ->
         triggerSimulationEvent(fc.args.eventType, fc.args.targetId)
    [] fc.name = "toggleGpuBoost" /\ uiImpl = "switch" ->
         <<Op("toggleGPUBooost", Undefined)>>
    [] OTHER -> <<>>

\* the effect of an invoked operation
Perform(s, o) ==
  CASE o.op = "scrollToSection" -> scrollToSection(s, o.arg)
    [] o.op = "toggleDistrict" -> toggleDistrict(s, o.arg)
    [] o.op = "setTransitHub" -> setTransitHub(s, o.arg)
    [] o.op = "resetSimulation" -> resetSimulation(s)
    [] o.op = "toggleGPUBooost" -> toggleGPUBooost(s)

RECURSIVE PerformAll(_, _)
PerformAll(os, s) ==
  IF os = <<>> THEN s ELSE PerformAll(Tail(os), Perform(s, Head(os)))

\* QuantumScene.tsx:503-516 and :285-297  one iteration of the loop
dispatchCallStrict(s, fc) ==
  IF \/ fc.name \in {"navigateToSection", "triggerSimulationEvent"}
     \/ fc.name = "toggleGpuBoost" /\ uiImpl = "switch"
  THEN PerformAll(Performed(fc), s)
  ELSE [s EXCEPT !.threw = TRUE]
dispatchCall(s, fc) == PerformAll(Performed(fc), s)

\* QuantumScene.tsx:501-518 and :283-299  for (const fc of response.functionCalls)
RECURSIVE DispatchReversed(_, _)
DispatchReversed(calls, s) ==
  IF calls = <<>> THEN s
  ELSE dispatchCall(DispatchReversed(Tail(calls), s), Head(calls))

RECURSIVE Dispatch(_, _)
Dispatch(calls, s) ==
  IF calls = <<>> THEN s
  ELSE Dispatch(Tail(calls), dispatchCall(s, Head(calls)))

UserMessage(text) == [role |-> "user", text |-> text]
ModelMessage(text) == [role |-> "model", text |-> text]

\* QuantumScene.tsx:497 and :280  isBoosted as handleSend reads it
IsBoosted == districts["AI"].gpu.present /\ districts["AI"].gpu.isBoosted

\* the text handleSend passes on (QuantumScene.tsx:489: trimmed; :273: as is)
Sent(text) == IF uiImpl = "switch" THEN trim(text) ELSE text

\* a handleSend whose dispatch works on the store as it was when the page
\* was mounted instead of the store current at dispatch time
RespondStale(text, calls, sofar) ==
  LET stale == [State EXCEPT !.districts = InitialState(0).districts,
                             !.transitHub = InitialState(0).transitHub,
                             !.simulationActive = InitialState(0).simulationActive]
      s == Dispatch(calls, stale)
  IN /\ Commit(s)
     /\ IF s.threw
        THEN /\ messages' = sofar
             /\ isTyping' = TRUE
        ELSE /\ messages' = Append(sofar, ModelMessage(text))
             /\ isTyping' = FALSE

\* QuantumScene.tsx:501-525 and :283-305: what handleSend does with the
\* response; the updates of this render are lost when an updater throws
Respond(text, calls, sofar) ==
  LET s == Dispatch(calls, State)
  IN /\ Commit(s)
     /\ IF s.threw
        THEN /\ messages' = sofar
             /\ isTyping' = TRUE
        ELSE /\ messages' = Append(sofar, ModelMessage(text))
             /\ isTyping' = FALSE

\* handleSend(text) up to the await; on a cache hit chat() returns without
\* suspending and the rest of handleSend follows in the same task
HandleSend(text) ==
  /\ ~crashed /\ mounted /\ ops < MaxOps
  /\ trim(text) # <<>> /\ ~isTyping
  /\ ops' = ops + 1
  /\ ChatBy(Sent(text), IsBoosted, "assistant")
  /\ IF Faults(Sent(text), IsBoosted)
     THEN /\ messages' = Append(Append(messages, UserMessage(Sent(text))),
                                ModelMessage(InterruptedText))
          /\ isTyping' = FALSE
          /\ UNCHANGED <<districts, transitHub, simulationActive, crashed,
                         mounted, interval, scrollTarget>>
     ELSE IF IsHit(Sent(text), IsBoosted)
     THEN Respond(HitResult(Sent(text), IsBoosted).text,
                  HitCalls(Sent(text), IsBoosted),
                  Append(messages, UserMessage(Sent(text))))
     ELSE /\ messages' = Append(messages, UserMessage(Sent(text)))
          /\ isTyping' = TRUE
          /\ UNCHANGED <<districts, transitHub, simulationActive, crashed,
                         mounted, interval, scrollTarget>>
  /\ UNCHANGED <<storeImpl, uiImpl>>

\* the remote call of the assistant resolved with r: the rest of chat() and
\* of handleSend
AssistantResolve(c, r, quotaOk) ==
  /\ ~crashed /\ mounted
  /\ c.owner = "assistant"
  /\ Resolve(c, r, quotaOk)
  /\ Respond(MissResult(c, r).text, MissResult(c, r).functionCalls, messages)
  /\ UNCHANGED <<storeImpl, uiImpl, ops>>

\* the remote call of the assistant rejected with e: chat() throws and
\* handleSend catches
AssistantReject(c, e) ==
  /\ ~crashed /\ mounted
  /\ c.owner = "assistant"
  /\ Reject(c, e)
  /\ messages' = Append(messages, ModelMessage(InterruptedText))
  /\ isTyping' = FALSE
  /\ UNCHANGED <<storeImpl, uiImpl, districts, transitHub, simulationActive,
                 crashed, mounted, interval, scrollTarget, ops>>

----------------------------------------------------------------------------
\* Direct calls of the orchestrator

InitOrchestrator ==
  /\ impl \in Impls
  /\ now = 0
  /\ cache = <<>>
  /\ storageValid \in (IF impl = "persistent" THEN BOOLEAN ELSE {TRUE})
  /\ storageNull \in (IF impl = "persistent" /\ storageValid THEN BOOLEAN ELSE {FALSE})
  /\ pending = EmptyBag
  /\ out = NoOut

\* direct calls of the orchestrator: the page is in its initial state
InitChat ==
  /\ InitOrchestrator
  /\ storeImpl = "context"
  /\ uiImpl = "switch"
  /\ districts = InitialState(0).districts
  /\ transitHub = InitialState(0).transitHub
  /\ simulationActive = InitialState(0).simulationActive
  /\ crashed = FALSE
  /\ mounted = TRUE
  /\ interval = TRUE
  /\ isTyping = FALSE
  /\ messages = <<>>
  /\ scrollTarget = ""
  /\ ops = 0

NextChat ==
  \/ \E m \in Messages, b \in BOOLEAN : Chat(m, b)
  \/ \E c \in BagToSet(pending), r \in ApiResponses, quotaOk \in BOOLEAN :
       ChatResolve(c, r, quotaOk)
  \/ \E c \in BagToSet(pending), e \in RemoteErrors : ChatReject(c, e)
  \/ ClearCache
  \/ AdvanceTime

SpecChat == InitChat /\ [][NextChat]_vars

\* direct calls that may be suspended together (non-boosted ones: they
\* read and write the cache in every version that has one)
RaceChat(m, b) == ChatUpTo(m, b, "api", MaxRacing) /\ UNCHANGED cityVars

\* the messages tried for racing calls
RaceMessages == { <<"h", "i">>, <<"7">> }

NextRace ==
  \/ \E m \in RaceMessages : RaceChat(m, FALSE)
  \/ \E c \in BagToSet(pending), r \in ApiResponses, quotaOk \in BOOLEAN :
       ChatResolve(c, r, quotaOk)
  \/ \E c \in BagToSet(pending), e \in RemoteErrors : ChatReject(c, e)
  \/ AdvanceTime

SpecRace == InitChat /\ [][NextRace]_vars

----------------------------------------------------------------------------
\* The page: the store, its controls, the interval and the assistant

InitCity ==
  /\ InitOrchestrator
  /\ storeImpl \in StoreImpls
  /\ uiImpl \in UiImpls
  /\ \E r \in RandomTenths : districts = InitialState(r).districts
  /\ transitHub = InitialState(0).transitHub
  /\ simulationActive = InitialState(0).simulationActive
  /\ crashed = FALSE
  /\ mounted = TRUE
  /\ interval = TRUE
  /\ isTyping = FALSE
  /\ messages = <<>>
  /\ scrollTarget = ""
  /\ ops = 0

NextCity ==
  \/ \E id \in HubIds : ToggleDistrict(id)
  \/ \E hub \in TransitHubs : SetTransitHub(hub)
  \/ ToggleGPUBooost
  \/ ResetSimulation
  \/ \E r1 \in RandomTenths, r2 \in RandomTenths : Tick(r1, r2)
  \/ Unmount
  \/ \E text \in SendTexts : HandleSend(text)
  \/ \E c \in BagToSet(pending), r \in ModelResponses, quotaOk \in BOOLEAN :
       AssistantResolve(c, r, quotaOk)
  \/ \E c \in BagToSet(pending), e \in RemoteErrors : AssistantReject(c, e)
  \/ AdvanceTime

SpecCity == InitCity /\ [][NextCity]_vars

\* the assistant alone, with the remote call settling sooner or later: the
\* promise of generateContent resolves or rejects
Settle ==
  \/ \E c \in BagToSet(pending), r \in ModelResponses, quotaOk \in BOOLEAN :
       AssistantResolve(c, r, quotaOk)
  \/ \E c \in BagToSet(pending), e \in RemoteErrors : AssistantReject(c, e)

NextSend ==
  \/ \E text \in SendTexts : HandleSend(text)
  \/ Settle
  \/ Unmount

SpecSend == InitCity /\ [][NextSend]_vars /\ WF_vars(Settle)


----------------------------------------------------------------------------
\* Claims about the response cache (properties of SpecChat)

Cached == impl \in {"tiered", "persistent"}
Looked == out.kind \in {"hit", "issued"}

\* C1 as stated: for every message and either tier, the chat(m, t) that
\* follows a successful cache miss of chat(m, t) within the TTL is served
\* from the cache (cached = true, no remote call).
C1_Original ==
  (Cached /\ Looked /\ out.again /\ out.at - out.since < Ttl)
    => (out.kind = "hit" /\ out.cached)

\* C1 as amended: a chat(m, t) that follows a successful miss of chat(m, t)
\* and finds the entry under its key younger than the TTL returns cached = true
\* and issues no remote call, except that the persistent version sends every
\* boosted call to the remote model; the tiered version leaves such an entry
\* after every successful miss.
C1_SecondCallWithinTtlHits ==
  /\ (Cached /\ Looked /\ out.again /\ out.stored /\ out.fresh
        /\ (impl = "tiered" \/ ~out.boosted))
       => (out.kind = "hit" /\ out.cached)
  /\ (impl = "tiered" /\ out.kind = "ok") => (out.wrote /\ out.stored)
  /\ (impl = "persistent" /\ Looked /\ out.boosted) => out.kind = "issued"

C1_Witness ==
  out.kind = "hit" /\ out.again /\ out.fresh /\ out.cached /\ out.at - out.since < Ttl

\* C2: a chat() that finds the entry under its key with
\* now - timestamp >= TTL goes to the remote model, leaves the expired entry
\* in the cache, and the result of a call that went remote has cached = false.
C2_ExpiredEntryIsMiss ==
  /\ (Looked /\ out.stored /\ ~out.fresh)
       => /\ out.kind = "issued"
          /\ Stored(cache, storageValid, out.msg, out.boosted)
  /\ out.kind = "ok" => ~out.cached

C2_Witness ==
  /\ out.kind = "issued" /\ out.stored /\ ~out.fresh
  /\ now - Lookup(cache, cacheKey(out.msg, out.boosted)).timestamp = Ttl

\* C3 as stated: a write into a full cache removes exactly one entry, the
\* first-inserted one, before it inserts the new entry, which is retrievable
\* afterwards.
C3_Claim ==
  (out.kind = "ok" /\ out.wrote /\ out.full /\ ~out.had)
    => /\ Len(out.evicted) = 1
       /\ out.evicted[1] = out.first
       /\ out.stored

\* C4 as stated: an answer with tool calls is not written to the cache, and
\* no hit returns functionCalls.
C4_Claim ==
  /\ (out.kind = "ok" /\ out.calls # NoCalls) => ~out.wrote
  /\ out.kind = "hit" => out.calls = NoCalls

\* C5: the entry a hit serves to a call with isBoosted = b was produced by a
\* remote call made with isBoosted = b.
C5_HitServesSameTier == out.kind = "hit" => out.origin = out.boosted

C5_Witness == out.kind = "hit" /\ out.boosted /\ out.origin

\* C6 as stated: a non-boosted chat() that follows, within the TTL, the
\* successful miss of a message differing only in case and outer whitespace
\* is a hit on the entry that miss wrote.
C6_Claim ==
  (Cached /\ Looked /\ out.echo /\ out.prevWrote /\ ~out.boosted
     /\ out.at - out.since < Ttl)
    => out.kind = "hit"

\* C7 as stated: a failed remote call makes chat() throw ClusterSaturated
\* when the failure is a 429, and InferenceUnavailable otherwise.
C7_Claim ==
  out.kind = "error"
    => /\ out.status = 429 => out.thrown = ClusterSaturated
       /\ out.status # 429 => out.thrown \in InferenceUnavailable

----------------------------------------------------------------------------
\* Claims about the simulation store (properties of SpecCity)

\* C8: in every reachable simulation state every district with
\* isActive = false has load = 0 and health = 0.
C8_InactiveDistrictIsZeroed ==
  \A id \in DOMAIN districts :
    ~districts[id].isActive => (districts[id].load = 0 /\ districts[id].health = 0)

\* a district was switched off by the user or by a FAIL_DISTRICT tool call
\* and the interval has written telemetry since
C8_Witness ==
  /\ ~districts["AI"].isActive
  /\ districts["AI"].load = 0 /\ districts["AI"].health = 0
  /\ districts["AI"].gpu.tflops # 1200
  /\ simulationActive

\* C9 as stated: the districts map has exactly the 7 enumerated ids as keys
\* and no operation fails part-way, whatever targetId a FAIL_DISTRICT tool
\* call carries.
C9_Claim == DOMAIN districts = HubIds /\ ~crashed

\* C10 as stated: transitHub is one of n8n, Zapier, Manual, whatever
\* targetId a SWITCH_TRANSIT tool call carries.
C10_Claim == transitHub \in TransitHubs

\* the state resetSimulation() sets
ResetBaseline ==
  /\ ~simulationActive
  /\ transitHub = "n8n"
  /\ DOMAIN districts = HubIds
  /\ \A id \in HubIds :
       /\ districts[id].isActive
       /\ districts[id].health = 100
       /\ districts[id].load = 200
  /\ districts["AI"].gpu = Gpu(FALSE, 1200, 420)

\* a step in which the remote call of the assistant resolved with the tool
\* calls `calls`
Answered(calls) ==
  /\ BagCardinality(pending') < BagCardinality(pending)
  /\ out'.kind = "ok"
  /\ out'.calls = calls

\* C11: from any reachable state resetSimulation(), clicked or dispatched as
\* a RESET tool call, yields the same state: simulationActive = false,
\* transitHub = n8n, the 7 districts active with health 100 and the default
\* load, the AI district not boosted.
C11_ResetYieldsBaseline ==
  [][ (ResetSimulation \/ Answered(<<Event("RESET", Undefined)>>))
        => ResetBaseline' ]_vars

\* a reset has run after a tool call had added an eighth key to districts
C11_Witness ==
  /\ ResetBaseline
  /\ storeImpl = "noc"
  /\ out.kind = "ok"
  /\ out.calls = <<Event("FAIL_DISTRICT", "toString")>>

\* the list holds a RESET tool call
HasReset(calls) ==
  \E i \in 1..Len(calls) :
    /\ calls[i].name = "triggerSimulationEvent"
    /\ calls[i].args.eventType = "RESET"

\* a step of the assistant that dispatched a RESET tool call
DispatchedReset ==
  /\ messages' # messages
  /\ out'.kind \in {"ok", "hit"}
  /\ HasReset(out'.calls)

\* C12: simulationActive becomes true on every toggleDistrict and every
\* setTransitHub, and it goes from true to false only in a resetSimulation
\* (toggleDistrict, setTransitHub, toggleGPUBooost and tick keep it true).
C12_SimulationActiveUntilReset ==
  [][ /\ (\E id \in HubIds : ToggleDistrict(id)) => simulationActive'
      /\ (\E hub \in TransitHubs : SetTransitHub(hub)) => simulationActive'
      /\ Answered(<<Event("FAIL_DISTRICT", "DATA")>>) => simulationActive'
      /\ Answered(<<Event("SWITCH_TRANSIT", "Zapier")>>) => simulationActive'
      /\ (simulationActive /\ ~simulationActive')
           => (ResetSimulation \/ DispatchedReset) ]_vars

\* the hub was switched, the GPU boosted and the interval has fired on the
\* boosted GPU, and simulationActive is true
C12_Witness ==
  /\ simulationActive
  /\ transitHub = "Zapier"
  /\ districts["AI"].gpu.isBoosted
  /\ districts["AI"].gpu.tflops >= 8200

\* a step of the assistant that dispatched the tool calls `calls`, of a
\* fresh answer or of a cached one
Dispatched(calls) ==
  \/ Answered(calls)
  \/ /\ messages' # messages
     /\ out'.kind = "hit"
     /\ out'.calls = calls

\* the store after a reset followed by the failure of district id
ResetThenFailed(id) ==
  /\ simulationActive
  /\ transitHub = "n8n"
  /\ DOMAIN districts = HubIds
  /\ ~districts[id].isActive /\ districts[id].load = 0 /\ districts[id].health = 0
  /\ \A other \in HubIds \ {id} :
       districts[other].isActive /\ districts[other].load = 200

\* C13: the tool calls of one answer are applied in the order received:
\* dispatching [RESET, FAIL_DISTRICT DATA] from any state leaves DATA
\* inactive and simulationActive true on top of the reset state.
C13_DispatchKeepsOrder ==
  [][ Dispatched(<<Event("RESET", Undefined), Event("FAIL_DISTRICT", "DATA")>>)
        => (~crashed' /\ ResetThenFailed("DATA")') ]_vars

\* the answer [RESET, FAIL_DISTRICT DATA] has been dispatched in a store
\* whose initial loads differ from the reset load
C13_Witness ==
  /\ storeImpl = "noc"
  /\ out.kind = "ok"
  /\ out.calls = <<Event("RESET", Undefined), Event("FAIL_DISTRICT", "DATA")>>
  /\ ResetThenFailed("DATA")
  /\ ~isTyping

\* C14: a tool call with an unknown name changes nothing and does not abort
\* the dispatch: of the answer [openDashboard, SWITCH_TRANSIT Zapier] the
\* second call is applied (and nothing else changes in the store) and the
\* model's text is appended to the conversation.
C14_UnknownToolIsSkipped ==
  [][ Dispatched(<<UnknownCall, Event("SWITCH_TRANSIT", "Zapier")>>)
        => /\ ~crashed'
           /\ transitHub' = "Zapier"
           /\ simulationActive'
           /\ districts' = districts
           /\ scrollTarget' = scrollTarget
           /\ messages'[Len(messages')] = ModelMessage("Done.")
           /\ ~isTyping' ]_vars

\* the answer [openDashboard, SWITCH_TRANSIT Zapier] has been dispatched
C14_Witness ==
  /\ out.kind = "ok"
  /\ out.calls = <<UnknownCall, Event("SWITCH_TRANSIT", "Zapier")>>
  /\ transitHub = "Zapier"
  /\ messages # <<>>
  /\ messages[Len(messages)] = ModelMessage("Done.")
  /\ ~isTyping

----------------------------------------------------------------------------
\* Claims about racing calls (properties of SpecRace)

\* C15 as stated: when two calls for the same key were suspended together
\* and both wrote the cache, the cache holds one entry for the key, written
\* by the call that completed last, and the second write cost no other key
\* its entry.
C15_Claim ==
  (out.kind = "ok" /\ out.raced /\ out.wrote)
    => /\ out.stored
       /\ Cardinality({i \in 1..Len(cache) :
                         Keys(cache)[i] = cacheKey(out.msg, out.boosted)}) = 1
       /\ Lookup(cache, cacheKey(out.msg, out.boosted)).timestamp = out.at
       /\ \A i \in 1..Len(out.evicted) :
            out.evicted[i] = cacheKey(out.msg, out.boosted)

----------------------------------------------------------------------------
\* Claims about storage failures and cost (properties of SpecChat)

\* C16 as stated: a failure while reading or writing the cache storage is
\* never raised to the caller of chat(): with unreadable or malformed stored
\* data the call goes to the remote model as a miss, and a call whose write
\* is rejected still returns its result.
C16_Claim ==
  /\ out.kind # "fault"
  /\ (Looked /\ impl = "persistent" /\ (~storageValid \/ storageNull))
       => out.kind = "issued"

----------------------------------------------------------------------------
\* Claims about toggleDistrict (properties of SpecCity)

\* the load an activation sets: 20 in CityContext.tsx, 15 in part_001
ActivationLoad == IF storeImpl = "context" THEN 200 ELSE 150

\* the district is at what toggleDistrict sets for its isActive
AtToggleBaseline(d) ==
  IF d.isActive THEN d.health = 100 /\ d.load = ActivationLoad
  ELSE d.health = 0 /\ d.load = 0

\* C17: in every reachable state and for every district id,
\* toggleDistrict(id) applied twice in succession returns isActive of the
\* district to its value, with health and load at the activation baseline,
\* and the intermediate state, when inactive, has load 0 and health 0.
C17_ToggleTwiceRestores ==
  \A id \in DOMAIN districts :
    LET once == toggleDistrict(State, id)
        twice == toggleDistrict(once, id)
    IN /\ ~once.threw /\ ~twice.threw
       /\ once.districts[id].isActive = ~districts[id].isActive
       /\ twice.districts[id].isActive = districts[id].isActive
       /\ AtToggleBaseline(once.districts[id])
       /\ AtToggleBaseline(twice.districts[id])

\* a district has been switched off and on again: it is active at the
\* activation load of part_001, which neither the initial state nor a reset
\* sets
C17_Witness ==
  /\ storeImpl = "noc"
  /\ districts["DATA"].isActive
  /\ districts["DATA"].load = 150
  /\ districts["DATA"].health = 100

----------------------------------------------------------------------------
\* Claims about the cost estimate (properties of SpecChat)

\* the coefficient of the tier of a call, in units of 0.0001
\* (aiService.ts:100-101)
TierCoefficient(isBoosted) == IF isBoosted THEN 15 ELSE 1

\* the texts a result of a remote call can carry
ResultTexts == { responseText(r) : r \in ApiResponses \cup ModelResponses }

\* C18: the costEstimate of a result that came from the remote model is
\* (length of its text / 4) * coefficient of the tier of the call (here in
\* units of 1/40000: length * coefficient in units of 0.0001), and of two
\* result texts of one tier the longer one never has the smaller estimate.
\* Only the tiered version puts a costEstimate in its result.
C18_CostEstimate ==
  /\ (impl = "tiered" /\ out.kind = "ok")
       => out.cost = Len(out.text) * TierCoefficient(out.boosted)
  /\ impl = "tiered"
       => \A t1, t2 \in ResultTexts : \A b \in BOOLEAN :
            Len(t1) <= Len(t2) => costEstimate(t1, b) <= costEstimate(t2, b)

\* a boosted call returned the 22 characters of "All districts nominal."
\* with an estimate of 22 / 4 * 0.0015
C18_Witness ==
  /\ impl = "tiered"
  /\ out.kind = "ok"
  /\ out.boosted
  /\ out.text = "All districts nominal."
  /\ out.cost = 330

----------------------------------------------------------------------------
\* Claims about the telemetry interval (properties of SpecCity)

\* the callback of the interval runs
TickFires == \E r1 \in RandomTenths, r2 \in RandomTenths : Tick(r1, r2)

\* C19: the step that unmounts CityProvider leaves the interval cancelled,
\* and from a state where CityProvider is unmounted no step is a firing of
\* the interval, the interval stays cancelled, and districts, transitHub and
\* simulationActive do not change.
C19_TickCancelledOnTeardown ==
  [][ /\ (mounted /\ ~mounted') => ~interval'
      /\ ~mounted => /\ ~TickFires
                     /\ ~interval'
                     /\ UNCHANGED <<districts, transitHub, simulationActive>> ]_vars

\* the interval fired (tflops 129 is only written by a tick), then
\* CityProvider was unmounted without an error, and time went on
C19_Witness ==
  /\ ~mounted /\ ~crashed /\ ~interval
  /\ districts["AI"].gpu.tflops = 1290
  /\ now > 0

----------------------------------------------------------------------------
\* Claims about one toggleDistrict (properties of SpecCity)

\* what a step that ran toggleDistrict(id) on the district id has done
ToggledOnly(id) ==
  /\ ~crashed'
  /\ DOMAIN districts' = DOMAIN districts
  /\ districts'[id].isActive = ~districts[id].isActive
  /\ IF districts'[id].isActive
     THEN districts'[id].health = 100 /\ districts'[id].load = ActivationLoad
     ELSE districts'[id].health = 0 /\ districts'[id].load = 0
  /\ districts'[id].gpu = districts[id].gpu
  /\ districts'[id].id = districts[id].id
  /\ \A other \in DOMAIN districts \ {id} : districts'[other] = districts[other]
  /\ simulationActive'
  /\ transitHub' = transitHub

\* C20: a step that runs toggleDistrict(id) for a district id (the control
\* of the district, or the tool call FAIL_DISTRICT with that id) flips
\* isActive of the district, sets health 100 and the activation load when it
\* becomes active and health 0 and load 0 when it becomes inactive, sets
\* simulationActive, and leaves every other district, the gpuAcceleration of
\* the district and transitHub as they were.
C20_ToggleDistrictFrame ==
  [][ /\ \A id \in HubIds : ToggleDistrict(id) => ToggledOnly(id)
      /\ Answered(<<Event("FAIL_DISTRICT", "DATA")>>) => ToggledOnly("DATA") ]_vars

\* the boosted AI district was switched off: its gpuAcceleration is still
\* the boosted one, and no other district or the hub has changed
C20_Witness ==
  /\ ~districts["AI"].isActive
  /\ districts["AI"].health = 0 /\ districts["AI"].load = 0
  /\ districts["AI"].gpu.isBoosted
  /\ simulationActive
  /\ transitHub = "n8n"
  /\ \A other \in HubIds \ {"AI"} : districts[other].isActive

----------------------------------------------------------------------------
\* Claims about toggleGPUBooost (properties of SpecCity)

\* the store with the gpuAcceleration of the AI district removed
WithoutGpu == [State EXCEPT !.districts["AI"].gpu = NoGpu]

\* what a step that ran toggleGPUBooost() has done
BoostFlippedOnly ==
  /\ ~crashed'
  /\ districts'["AI"].gpu.isBoosted = ~districts["AI"].gpu.isBoosted
  /\ districts' = [districts EXCEPT !["AI"].gpu.isBoosted = ~districts["AI"].gpu.isBoosted]
  /\ districts'["AI"].gpu.tflops = districts["AI"].gpu.tflops
  /\ districts'["AI"].gpu.vramUsed = districts["AI"].gpu.vramUsed
  /\ \A id \in DOMAIN districts :
       /\ districts'[id].isActive = districts[id].isActive
       /\ districts'[id].load = districts[id].load
       /\ districts'[id].health = districts[id].health
  /\ simulationActive' = simulationActive
  /\ transitHub' = transitHub

\* C21: a step that runs toggleGPUBooost() (the control, or the tool call
\* toggleGpuBoost of the handleSend that knows it) flips
\* gpuAcceleration.isBoosted of the AI district and changes nothing else of
\* the store; applied to a store whose AI district has no gpuAcceleration
\* it returns that store.
C21_GpuBoostFrame ==
  [][ /\ ToggleGPUBooost => BoostFlippedOnly
      /\ (uiImpl = "switch" /\ Answered(<<GpuBoost>>)) => BoostFlippedOnly
      /\ toggleGPUBooost(WithoutGpu) = WithoutGpu ]_vars

\* the boost was switched on after a district had failed and the hub had
\* been changed: both are as they were
C21_Witness ==
  /\ districts["AI"].gpu.isBoosted
  /\ districts["AI"].gpu.tflops = 1200
  /\ ~districts["DATA"].isActive
  /\ transitHub = "Zapier"
  /\ simulationActive

----------------------------------------------------------------------------
\* Claims about the telemetry a tick writes (properties of SpecCity)

\* C22 as stated: a firing of the interval while the AI district is
\* inactive leaves districts (gpuAcceleration.tflops and vramUsed included),
\* transitHub and simulationActive unchanged.
C22_Claim ==
  [][ (TickFires /\ ~districts["AI"].isActive)
        => UNCHANGED <<districts, transitHub, simulationActive>> ]_vars

\* a step changed nothing of the store but tflops and vramUsed of the AI
\* district
OnlyTelemetryChanged ==
  /\ ~crashed'
  /\ districts' = [districts EXCEPT
                     !["AI"].gpu.tflops = districts'["AI"].gpu.tflops,
                     !["AI"].gpu.vramUsed = districts'["AI"].gpu.vramUsed]
  /\ transitHub' = transitHub
  /\ simulationActive' = simulationActive

\* tflops is in the band of isBoosted: 850 + [0, 50) boosted in
\* CityContext.tsx:44, 820 + [0, 80) in part_001:57, 120 + [0, 10)
\* otherwise (in tenths)
InBand(g) ==
  IF g.isBoosted
  THEN (IF storeImpl = "context" THEN 8500 ELSE 8200) <= g.tflops /\ g.tflops < 9000
  ELSE 1200 <= g.tflops /\ g.tflops < 1300

\* C23 as stated: a firing of the interval changes nothing but tflops and
\* vramUsed of the AI district, and after it tflops is in the band of
\* isBoosted.
C23_Original ==
  [][ TickFires => (OnlyTelemetryChanged /\ InBand(districts'["AI"].gpu)) ]_vars

\* C23 as amended: a firing of the interval changes nothing but tflops and
\* vramUsed of the AI district; after it tflops is in the band of isBoosted
\* when the AI district is active, and in CityContext.tsx also when it is
\* not; in part_001 a firing while the AI district is inactive leaves
\* gpuAcceleration as it was, whatever isBoosted is.
C23_TickChangesTelemetryOnly ==
  [][ TickFires =>
        /\ OnlyTelemetryChanged
        /\ (storeImpl = "context" \/ districts["AI"].isActive)
             => InBand(districts'["AI"].gpu)
        /\ (storeImpl = "noc" /\ ~districts["AI"].isActive)
             => districts'["AI"].gpu = districts["AI"].gpu ]_vars

\* the interval fired on the boosted, active AI district of a store that
\* is otherwise in its initial state
C23_Witness ==
  /\ districts["AI"].isActive
  /\ districts["AI"].gpu.isBoosted
  /\ InBand(districts["AI"].gpu)
  /\ districts["AI"].gpu.vramUsed >= 760
  /\ ~simulationActive
  /\ transitHub = "n8n"

----------------------------------------------------------------------------
\* Claims about the dispatch of tool calls (properties of SpecCity)

\* the tool calls with a recognised name and event type
Recognised(fc) ==
  \/ fc.name \in {"navigateToSection", "toggleGpuBoost"}
  \/ /\ fc.name = "triggerSimulationEvent"
     /\ fc.args.eventType \in {"FAIL_DISTRICT", "SWITCH_TRANSIT", "RESET"}

\* C24 as stated: for every recognised tool call of an answer that is
\* dispatched, the dispatcher invokes exactly one operation: the scroll, or
\* one of toggleDistrict, setTransitHub, resetSimulation, toggleGPUBooost.
C24_Claim ==
  [][ \A r \in ModelResponses :
        Dispatched(r.functionCalls) =>
          \A i \in 1..Len(r.functionCalls) :
            Recognised(r.functionCalls[i]) => Len(Performed(r.functionCalls[i])) = 1 ]_vars

----------------------------------------------------------------------------
\* Claims about lookups and the eviction order (properties of SpecChat)

\* the key of the call the last step of the orchestrator belongs to
OutKey == cacheKey(out.msg, out.boosted)

\* a successful miss of chat(m, b) that writes the tiered cache now would
\* delete the key k
WriteEvicts(m, b, k) ==
  \A r \in ApiResponses : ~HasKey(TieredWrite(Call(m, b, "api"), r), k)

\* after a hit on the first-inserted entry of the full Map, the write of
\* any key that is not stored deletes the entry that was just served
HitDoesNotProtect ==
  (impl = "tiered" /\ out.kind = "hit" /\ Full /\ OutKey = Keys(cache)[1])
    => \A m \in Messages, b \in BOOLEAN :
         ~HasKey(cache, cacheKey(m, b)) => WriteEvicts(m, b, OutKey)

\* the expired entry a lookup found is still stored
ExpiredStaysStored ==
  (Cached /\ out.kind = "issued" /\ out.stored /\ ~out.fresh)
    => /\ HasKey(getCache, OutKey)
       /\ Len(getCache) >= 1

\* C25: a step in which chat() looks the cache up (a hit, or a miss that
\* goes to the remote model, the miss on an expired entry included) leaves
\* the cache as it was: same entries, same order; the expired entry stays
\* stored and counted; and a hit on the first-inserted entry of the full
\* Map does not keep the next write of a new key from deleting it.
C25_LookupLeavesCache ==
  /\ [][ out'.kind \in {"hit", "issued", "fault"}
           => UNCHANGED <<cache, storageValid, storageNull>> ]_vars
  /\ [](ExpiredStaysStored /\ HitDoesNotProtect)

\* the full Map served its first-inserted entry
C25_Witness ==
  /\ impl = "tiered"
  /\ out.kind = "hit"
  /\ Full
  /\ OutKey = Keys(cache)[1]
  /\ Len(cache) = MAX_CACHE_SIZE

----------------------------------------------------------------------------
\* Claims about the FAIL_DISTRICT event (properties of SpecCity)

\* C26 as stated: after the dispatch of triggerSimulationEvent with
\* eventType FAIL_DISTRICT and targetId DATA the district DATA is inactive
\* with load 0 and health 0, whatever it was before.
C26_Claim ==
  [][ Dispatched(<<Event("FAIL_DISTRICT", "DATA")>>)
        => /\ ~districts'["DATA"].isActive
           /\ districts'["DATA"].load = 0
           /\ districts'["DATA"].health = 0 ]_vars

----------------------------------------------------------------------------
\* Claims about the metrics of a result (properties of SpecChat)

\* metrics.ttft <= metrics.totalLatency (ttft is kept in hundredths)
TtftWithinLatency(metrics) == metrics.ttft100 <= 100 * metrics.totalLatency

\* C27 as stated: the result of a hit has cached = true, a totalLatency that
\* is the time of the lookup (less than one unit of the clock) and
\* ttft <= totalLatency; the result of every call that returns from the
\* remote model has ttft <= totalLatency.
C27_Claim ==
  /\ out.kind = "hit"
       => /\ out.cached
          /\ HitResult(out.msg, out.boosted).metrics.totalLatency = 0
          /\ TtftWithinLatency(HitResult(out.msg, out.boosted).metrics)
  /\ \A c \in BagToSet(pending), r \in ApiResponses :
       TtftWithinLatency(MissResult(c, r).metrics)

----------------------------------------------------------------------------
\* Claims about a failed call (properties of SpecRace)

\* C28 as stated: the step in which chat() fails because the remote call
\* threw leaves the cache as it was, and the same chat() called next is not
\* served from the cache: it calls the remote model.
C28_Original ==
  /\ [][ out'.kind = "error" => UNCHANGED <<cache, storageValid, storageNull>> ]_vars
  /\ [][ (out.kind = "error" /\ RaceChat(out.msg, out.boosted))
           => out'.kind = "issued" ]_vars
  /\ [](out.kind = "error" => ~IsHit(out.msg, out.boosted))

\* C28 as amended: the step in which chat() fails leaves the cache as it
\* was (entries, order, and the state of localStorage); the same chat()
\* called next calls the remote model unless another call wrote the key
\* while the failed one was suspended.
C28_FailedCallLeavesCache ==
  /\ [][ out'.kind = "error" => UNCHANGED <<cache, storageValid, storageNull>> ]_vars
  /\ [][ (out.kind = "error" /\ ~out.raced /\ RaceChat(out.msg, out.boosted))
           => out'.kind = "issued" ]_vars
  /\ []((out.kind = "error" /\ ~out.raced) => ~IsHit(out.msg, out.boosted))

\* a call has failed, no other call wrote its key meanwhile, and the cache
\* holds what it held
C28_Witness ==
  /\ out.kind = "error"
  /\ ~out.raced
  /\ Len(getCache) >= 1
  /\ Cached

----------------------------------------------------------------------------
\* Claims about isTyping (properties of SpecSend)

\* C29 as stated: whenever isTyping is true (a handleSend has started a
\* request) it is false again later, unless the page was taken down
\* meanwhile; and while isTyping is true no further request starts.
C29_Claim ==
  /\ isTyping ~> (~isTyping \/ (~mounted /\ ~crashed))
  /\ [][ isTyping => BagCardinality(pending') <= BagCardinality(pending) ]_vars

----------------------------------------------------------------------------
\* Claims about changes made while chat() is suspended (properties of
\* SpecCity)

\* the request in flight was sent with the boost off and the boost is on
\* now: toggleGPUBooost ran while chat() was suspended
BoostedWhileSuspended ==
  /\ IsBoosted
  /\ \E c \in BagToSet(pending) : ~c.boosted

\* what a step that ran setTransitHub(hub) has done
SwitchedOnly(hub) ==
  /\ ~crashed'
  /\ transitHub' = hub
  /\ simulationActive'
  /\ districts' = districts

\* the answers whose dispatch neither resets nor touches the boost
BoostKeepingCalls ==
  { NoCalls,
    <<Event("FAIL_DISTRICT", "DATA")>>,
    <<Event("SWITCH_TRANSIT", "Zapier")>>,
    <<Event("SWITCH_TRANSIT", "MCP")>>,
    <<Navigate("simulation"), Event("FAIL_DISTRICT", "AI"),
      Event("SWITCH_TRANSIT", "Manual")>> }

\* C30: the tool calls of an answer are applied to the store as it is when
\* the answer arrives: a dispatched SWITCH_TRANSIT, FAIL_DISTRICT or
\* toggleGpuBoost changes only its own target in the store of that moment,
\* an answer without calls changes nothing, a boost switched on while the
\* request was in flight is still on after the dispatch, and only an answer
\* with a RESET takes it away.
C30_DispatchOnCurrentState ==
  [][ /\ Answered(<<Event("SWITCH_TRANSIT", "Zapier")>>) => SwitchedOnly("Zapier")
      /\ Answered(<<Event("FAIL_DISTRICT", "DATA")>>) => ToggledOnly("DATA")
      /\ (uiImpl = "switch" /\ Answered(<<GpuBoost>>)) => BoostFlippedOnly
      /\ Answered(NoCalls) => UNCHANGED <<districts, transitHub, simulationActive>>
      /\ \A calls \in BoostKeepingCalls :
           (BoostedWhileSuspended /\ Answered(calls))
             => (IsBoosted' /\ districts'["AI"].gpu = districts["AI"].gpu)
      /\ \A r \in ModelResponses :
           (BoostedWhileSuspended /\ Answered(r.functionCalls)
              /\ HasReset(r.functionCalls))
             => ~IsBoosted' ]_vars

\* a request was sent with the boost off, the boost was switched on, and the
\* answer [SWITCH_TRANSIT Zapier] has been dispatched: the hub is Zapier and
\* the boost is on
C30_Witness ==
  /\ out.kind = "ok"
  /\ ~out.boosted
  /\ out.calls = <<Event("SWITCH_TRANSIT", "Zapier")>>
  /\ transitHub = "Zapier"
  /\ IsBoosted
  /\ ~isTyping
  /\ ops = 2

====
